---- MODULE Spec2Model ----
(***************************************************************************)
(* The tutorial notebooks of pythonks.ds.ai, read as sequential programs:  *)
(*   workflow        PyTorch Workflow (linear regression, save / load)     *)
(*   classification  PyTorch Neural Network Classification (circles)       *)
(*   vision          PyTorch Computer Vision (Fashion-MNIST, batches)      *)
(*   fundamentals    PyTorch Fundamentals (sampling and the random seed)   *)
(* A kernel runs one notebook top to bottom, one statement per step.       *)
(*                                                                         *)
(* Abstractions (the framework is opaque to the notebooks):                *)
(*  - a tensor of reals is a sequence of integers in a fixed unit;         *)
(*  - the gradient autograd derives from a loss is any value of GradValues *)
(*    per parameter, in units of the learning rate;                        *)
(*  - the output of an nn.Linear stack is any value of Logits, one         *)
(*    representative sample per forward pass;                              *)
(*  - a random generator is a pair (seed, position in its stream), and the *)
(*    stream is a fixed function of the two.                               *)
(***************************************************************************)
EXTENDS Integers, Sequences, FiniteSets, TLC

\* ---------------------------------------------------------------- bounds
\* Epochs explored of a loop whose epoch_count is larger (100, 10000).
MaxEpochs == 3
\* Samples of the Fashion-MNIST training / test set (60000 / 10000).
TrainDataSize == 70
TestDataSize == 40
\* Points generated by make_circles (sample_size is 1000 in the notebook).
CircleSamples == 10
\* Top-to-bottom executions of a notebook (kernel restarts in between).
MaxRuns == 2

\* Distinct noise values make_circles can add to a coordinate.
NoiseLevels == 64

\* Seeds the operating system may hand to a generator that was never seeded.
EntropySeeds == {1, 5}
\* Gradient of the loss with respect to one parameter, in units of lr.
GradValues == {0, 1}
\* Raw output (logit) of a linear stack for the representative sample.
Logits == {-1, 0, 1}

\* ------------------------------------------------------ program constants
BATCH_SIZE == 32
sample_size == 1000
\* true_weight = 0.7 per predictor step of 0.02, in target units of 0.002.
true_weight == 7
\* true_bias = 0.3 in target units of 0.002.
true_bias == 150
\* torch.arange(0, 1, 0.02) has ceil(1 / 0.02) = 50 entries.
PredictorSize == 50

Notebooks == {"workflow", "classification", "vision", "fundamentals"}

\* ------------------------------------------------------------- utilities
Min(a, b) == IF a < b THEN a ELSE b

CeilDiv(a, b) == (a + b - 1) \div b

Range(s) == {s[i] : i \in DOMAIN s}

IsPrefix(s, t) == Len(s) <= Len(t) /\ SubSeq(t, 1, Len(s)) = s

\* Python slice s[lo:hi] with 0-based bounds, hi exclusive.
Slice(s, lo, hi) == SubSeq(s, lo + 1, hi)

\* -------------------------------------------------------------- statements
\* A statement: the operation, the model variable it names, the tensor it
\* reads, a numeric argument and the variable it assigns.
S(op, m, d, n) == [op |-> op, m |-> m, d |-> d, n |-> n, t |-> ""]

St(op) == S(op, "", "", 0)

\* t = m(d)
F(m, d, t) == [op |-> "forward", m |-> m, d |-> d, n |-> 0, t |-> t]

\* t = m(d).squeeze()
FS(m, d, t) == [op |-> "forward", m |-> m, d |-> d, n |-> 1, t |-> t]

\* loss = loss_function(d, target): t is "train" for the loss that is
\* back-propagated and "test" for the loss of the evaluation.
L(d, t) == [op |-> "loss", m |-> "", d |-> d, n |-> 0, t |-> t]

\* t = torch.round(torch.sigmoid(d))
C(d, t) == [op |-> "classify", m |-> "", d |-> d, n |-> 0, t |-> t]

\* print(d)
P(d) == [op |-> "print", m |-> "", d |-> d, n |-> 0, t |-> ""]

\* range(epoch_count) as far as the model follows it.
EpochLimit(n) == Min(n, MaxEpochs)

\* ---------------------------------------------------------------- programs
EnterInference == St("enter_inference")

ExitInference == St("exit_inference")

\* The linear-regression loop with the update placed before backpropagation.
WorkflowLoopBodyStepFirst ==
  << S("train", "sample_model", "", 0),
     F("sample_model", "train_predictor", "prediction"),
     L("prediction", "train"),
     St("zero_grad"),
     St("step"),
     St("backward"),
     S("eval", "sample_model", "", 0),
     EnterInference,
     F("sample_model", "test_predictor", "test_prediction"),
     L("test_prediction", "test"),
     ExitInference >>

\* The linear-regression loop without the call of sample_model.train().
WorkflowLoopBodyNoTrain ==
  << F("sample_model", "train_predictor", "prediction"),
     L("prediction", "train"),
     St("zero_grad"),
     St("backward"),
     St("step"),
     S("eval", "sample_model", "", 0),
     EnterInference,
     F("sample_model", "test_predictor", "test_prediction"),
     L("test_prediction", "test"),
     ExitInference >>

\* for epoch in range(epoch_count): of the linear-regression loop.
WorkflowLoopBody ==
  << S("train", "sample_model", "", 0),
     F("sample_model", "train_predictor", "prediction"),
     L("prediction", "train"),
     St("zero_grad"),
     St("backward"),
     St("step"),
     S("eval", "sample_model", "", 0),
     EnterInference,
     F("sample_model", "test_predictor", "test_prediction"),
     L("test_prediction", "test"),
     ExitInference >>

Workflow ==
  << St("make_predictor"),
     St("make_target"),
     St("slice_split"),
     S("construct", "sample_model", "LinearRegressionModel", 0),
     EnterInference,
     F("sample_model", "test_predictor", "result"),
     ExitInference,
     P("result"),
     S("make_optimizer", "sample_model", "", 0),
     S("manual_seed", "", "", 42),
     S("range_epochs", "", "", 100),
     St("for_epoch") >>
  \o WorkflowLoopBody \o
  << St("end_epoch"),
     St("make_new_predictor"),
     S("eval", "sample_model", "", 0),
     EnterInference,
     F("sample_model", "new_predictor", "new_prediction"),
     ExitInference,
     P("new_prediction"),
     S("save", "sample_model", "", 0),
     S("construct", "trained_model", "LinearRegressionModel", 0),
     S("load_state_dict", "trained_model", "", 0),
     S("eval", "trained_model", "", 0),
     EnterInference,
     F("trained_model", "new_predictor", "new_prediction"),
     ExitInference,
     P("new_prediction") >>

\* for epoch in range(epoch_count): of the three circle loops.
CircleLoopBody ==
  << S("train", "model", "", 0),
     FS("model", "train_input", "train_logits"),
     C("train_logits", "train_classification"),
     L("train_logits", "train"),
     St("zero_grad"),
     St("backward"),
     St("step"),
     S("eval", "model", "", 0),
     EnterInference,
     FS("model", "test_input", "test_logits"),
     C("test_logits", "test_classification"),
     L("test_logits", "test"),
     ExitInference >>

CircleLoop(n) ==
  << S("manual_seed", "", "", 42),
     S("range_epochs", "", "", n),
     St("for_epoch") >>
  \o CircleLoopBody \o
  << St("end_epoch") >>

Classification ==
  << S("make_circles", "", "", 42),
     St("from_numpy"),
     S("train_test_split", "", "", 42),
     S("construct", "model", "CircleModelLinearLayers", 0),
     EnterInference,
     FS("model", "train_input", "prediction"),
     ExitInference,
     S("sigmoid", "", "prediction", 0),
     S("round", "", "probabilities", 0),
     S("make_optimizer", "model", "", 0) >>
  \o CircleLoop(100) \o
  << S("construct", "model", "CircleModelNonLinear", 0),
     S("make_optimizer", "model", "", 0) >>
  \o CircleLoop(100) \o
  << S("construct", "model", "CircleModelNonLinear", 0),
     S("make_optimizer", "model", "", 0) >>
  \o CircleLoop(10000)

\* for batch, (train_input, train_output) in enumerate(train_dataloader):
VisionBatchBody ==
  << S("train", "model", "", 0),
     F("model", "train_input", "train_classification"),
     L("train_classification", "train"),
     St("zero_grad"),
     St("backward"),
     St("step") >>

\* for test_input, test_output in test_dataloader:
VisionTestBody ==
  << F("model", "test_input", "test_classification"),
     L("test_classification", "test") >>

Vision ==
  << St("load_datasets"),
     S("manual_seed", "", "", 42),
     S("sample", "", "randint", 16),
     St("make_dataloaders"),
     S("construct", "model", "FashionMNISTLinear", 0),
     S("make_optimizer", "model", "", 0),
     S("manual_seed", "", "", 42),
     S("range_epochs", "", "", 3),
     St("for_epoch"),
     S("iter_batches", "", "train", 0),
     S("for_batch", "", "train", 0) >>
  \o VisionBatchBody \o
  << St("end_batch"),
     S("eval", "model", "", 0),
     EnterInference,
     S("iter_batches", "", "test", 0),
     S("for_batch", "", "test", 0) >>
  \o VisionTestBody \o
  << St("end_batch"),
     ExitInference,
     St("end_epoch") >>

\* reset_seed(); print(torch.rand(3, 3))
ResetAndPrint ==
  << St("reset_seed"),
     S("rand_print", "", "rand", 9) >>

Fundamentals ==
  << S("sample", "", "rand", 24),
     S("sample", "", "bernoulli", 100),
     S("sample", "", "normal", 25),
     S("sample", "", "poisson", 25) >>
  \o ResetAndPrint \o ResetAndPrint \o ResetAndPrint \o
  << S("sample", "", "normal", 27),
     S("sample", "", "normal", 125),
     S("sample", "", "rand", 9) >>

Program(n) ==
  CASE n = "workflow" -> Workflow
    [] n = "classification" -> Classification
    [] n = "vision" -> Vision
    [] n = "fundamentals" -> Fundamentals

\* The tensors a training loop feeds to the model for fitting / evaluation.
IsTrainData(d) == d \in {"train_predictor", "train_input"}

IsTestData(d) == d \in {"test_predictor", "test_input"}

\* The variables that receive a forward pass over test data inside a loop.
LoopTestTargets == {"test_prediction", "test_logits", "test_classification"}

\* ------------------------------------------------------------ generators
\* The k-th value of the stream of a generator seeded with seed.
Mix(seed, k) == ((seed + 1) * 7919 + (k + 1) * 104729 + (seed + 1) * (k + 1) * 31) % 65521

\* A generator right after seeding.
Seeded(seed) == [seed |-> seed, pos |-> 0]

\* The next n values of a generator.
Draws(g, n) == [i \in 1..n |-> Mix(g.seed, g.pos + i - 1)]

\* A generator that sampling leaves where it was.
AdvanceStuck(g, n) == g

\* The generator after n values were drawn from it.
Advance(g, n) == [g EXCEPT !.pos = g.pos + n]

\* check_random_state as if random_state had not been passed.
CheckRandomStateGlobal(seed, global) == global

\* sklearn check_random_state: an int seeds a generator of its own; None
\* (modelled as -1) stands for the global numpy generator.
CheckRandomState(seed, global) == IF seed = -1 THEN global ELSE Seeded(seed)

Swap(s, i, j) == [s EXCEPT ![i] = s[j], ![j] = s[i]]

\* numpy shuffle: for i in reversed(range(1, n)): swap x[i], x[random(0..i)].
RECURSIVE Shuffle(_, _, _)
Shuffle(s, i, g) ==
  IF i < 2 THEN s
  ELSE Shuffle(Swap(s, i, 1 + (Mix(g.seed, g.pos) % i)), i - 1, Advance(g, 1))

\* rng.permutation(n): a shuffled arange(n), 0-based.
Permutation(g, n) == Shuffle([i \in 1..n |-> i - 1], n, g)

\* ------------------------------------------------------------------ modules
ParamKeys(cls) ==
  CASE cls = "LinearRegressionModel" -> <<"_weight", "_bias">>
    [] cls \in {"CircleModelLinearLayers", "CircleModelNonLinear"} ->
         <<"layer_1.weight", "layer_1.bias", "layer_2.weight", "layer_2.bias">>
    [] cls = "FashionMNISTLinear" ->
         <<"layer_stack.1.weight", "layer_stack.1.bias",
           "layer_stack.2.weight", "layer_stack.2.bias">>

\* Values the constructor draws: randn(1) twice, or the entries of the
\* weight and bias of each nn.Linear.
InitDraws(cls) ==
  CASE cls = "LinearRegressionModel" -> 2
    [] cls \in {"CircleModelLinearLayers", "CircleModelNonLinear"} -> 2 * 5 + 5 + 5 * 1 + 1
    [] cls = "FashionMNISTLinear" -> 28 * 28 * 10 + 10 + 10 * 10 + 10

\* A drawn value as an initial parameter value.
InitValue(v) == (v % 3) - 1

\* nn.Module.__init__ leaves the module in training state, without gradients.
NewModule(cls, g) ==
  [cls |-> cls,
   training |-> TRUE,
   param |-> [k \in Range(ParamKeys(cls)) |->
                InitValue(Mix(g.seed, g.pos + (CHOOSE i \in DOMAIN ParamKeys(cls) : ParamKeys(cls)[i] = k) - 1))],
   grad |-> [k \in Range(ParamKeys(cls)) |-> 0]]

\* LinearRegressionModel.forward
LinearForward(m, predictor) ==
  [i \in DOMAIN predictor |-> m.param["_weight"] * predictor[i] + m.param["_bias"]]

\* module.state_dict() as torch.save writes it: the entries in registration order.
StateDict(m) == [i \in DOMAIN ParamKeys(m.cls) |-> <<ParamKeys(m.cls)[i], m.param[ParamKeys(m.cls)[i]]>>]

\* load_state_dict that restores the weight only.
LoadStateDictWeightOnly(m, entries) ==
  [m EXCEPT !.param = [k \in DOMAIN m.param |->
     IF k = "_weight" /\ \E i \in DOMAIN entries : entries[i][1] = k
     THEN (entries[CHOOSE i \in DOMAIN entries : entries[i][1] = k])[2]
     ELSE m.param[k]]]

\* load_state_dict: every parameter takes the value of the entry of its name.
LoadStateDict(m, entries) ==
  [m EXCEPT !.param = [k \in DOMAIN m.param |->
     IF \E i \in DOMAIN entries : entries[i][1] = k
     THEN (entries[CHOOSE i \in DOMAIN entries : entries[i][1] = k])[2]
     ELSE m.param[k]]]

\* zero_grad that leaves the accumulated gradients in place.
ZeroGradOfKept(m) == m

\* optimizer.zero_grad()
ZeroGradOf(m) == [m EXCEPT !.grad = [k \in DOMAIN m.grad |-> 0]]

\* loss.backward(): the gradient of the loss is added to .grad.
BackwardOn(m, g) == [m EXCEPT !.grad = [k \in DOMAIN m.grad |-> m.grad[k] + g]]

\* SGD step: param -= lr * grad.
StepOn(m) == [m EXCEPT !.param = [k \in DOMAIN m.param |-> m.param[k] - m.grad[k]]]

\* --------------------------------------------------------------- functions
\* sigmoid of a logit, in thousandths.
Sigmoid(l) ==
  CASE l = -3 -> 47 [] l = -2 -> 119 [] l = -1 -> 269 [] l = 0 -> 500
    [] l = 1 -> 731 [] l = 2 -> 881 [] l = 3 -> 953

\* torch.round of p thousandths: to the nearest integer, ties to even.
Round(p) ==
  LET q == p \div 1000
      r == p % 1000
  IN IF 2 * r < 1000 THEN q
     ELSE IF 2 * r > 1000 THEN q + 1
     ELSE IF q % 2 = 0 THEN q ELSE q + 1

\* torch.round(torch.sigmoid(logits))
ClassOf(logits) == [i \in DOMAIN logits |-> Round(Sigmoid(logits[i]))]

\* The cutoff with the two proportions exchanged: int(0.2 * n).
TrainCutoffSwapped(n) == (2 * n) \div 10

\* int(0.8 * n); the float product is exact for the sizes used here.
TrainCutoff(n) == (8 * n) \div 10

\* sklearn _validate_shuffle_split for test_size = 0.2: <<n_train, n_test>>,
\* n_test = ceil(0.2 * n) and n_train the rest.
ShuffleSplitSizes(n) == << n - CeilDiv(2 * n, 10), CeilDiv(2 * n, 10) >>

\* The number of batches when the incomplete last batch is dropped.
\* DataLoader(data, batch_size=BATCH_SIZE, shuffle=...) given worker processes.
LoaderOptionsWithWorkers(d) == [batch_size |-> BATCH_SIZE, shuffle |-> (d = "train"), num_workers |-> 2]

\* The options the two DataLoaders are constructed with: the batch size, shuffle
\* for the training data only, and num_workers left at its default, 0 (the
\* batches are loaded in the calling process).
LoaderOptions(d) == [batch_size |-> BATCH_SIZE, shuffle |-> (d = "train"), num_workers |-> 0]

DataLoaderLenDropLast(n, b) == n \div b

\* len(DataLoader(dataset, batch_size)) with drop_last = False.
DataLoaderLen(n, b) == CeilDiv(n, b)

\* .type(torch.float) of a float64 value: the low bits are rounded away.
ToFloat32(v) == (v \div 4) * 4

\* ------------------------------------------------------------------ shapes
\* nn.Linear(in_features, out_features), nn.ReLU() and nn.Flatten().
Linear(i, o) == [kind |-> "linear", in_features |-> i, out_features |-> o]

ReLU == [kind |-> "relu", in_features |-> 0, out_features |-> 0]

Flatten == [kind |-> "flatten", in_features |-> 0, out_features |-> 0]

\* The layers forward applies to its input, in the order it applies them;
\* LinearRegressionModel.forward is elementwise and applies none.
Layers(cls) ==
  CASE cls = "LinearRegressionModel" -> << >>
    [] cls = "CircleModelLinearLayers" -> << Linear(2, 5), Linear(5, 1) >>
    [] cls = "CircleModelNonLinear" -> << Linear(2, 5), ReLU, Linear(5, 1) >>
    [] cls = "FashionMNISTLinear" -> << Flatten, Linear(28 * 28, 10), Linear(10, 10) >>

\* The shape of a call the framework rejects with a size mismatch.
ShapeError == << -1 >>

RECURSIVE Numel(_)
Numel(shape) == IF shape = << >> THEN 1 ELSE Head(shape) * Numel(Tail(shape))

\* The shape a layer returns for an input of the given shape.
ApplyLayer(layer, shape) ==
  IF shape = ShapeError \/ shape = << >> THEN ShapeError
  ELSE CASE layer.kind = "linear" ->
              IF shape[Len(shape)] = layer.in_features
              THEN [shape EXCEPT ![Len(shape)] = layer.out_features]
              ELSE ShapeError
         [] layer.kind = "relu" -> shape
         [] layer.kind = "flatten" -> << Head(shape), Numel(Tail(shape)) >>

RECURSIVE ForwardShape(_, _)
ForwardShape(layers, shape) ==
  IF layers = << >> THEN shape
  ELSE ForwardShape(Tail(layers), ApplyLayer(Head(layers), shape))

\* tensor.squeeze() that leaves the shape as it is.
SqueezeKept(shape) == shape

\* tensor.squeeze(): every dimension of size 1 is removed.
Squeeze(shape) == SelectSeq(shape, LAMBDA n : n # 1)

\* ------------------------------------------------------------------- state
VARIABLES
  nb,            \* the notebook the kernel runs
  run,           \* the number of this top-to-bottom execution
  pc,            \* index of the next statement of Program(nb)
  loop,          \* the range and DataLoader iterators and the loop variables
  inference,     \* inside a with torch.inference_mode(): block
  objs,          \* the live nn.Module objects, by object id
  bind,          \* the module each model variable is bound to (0: unbound)
  optimizer,     \* the module whose parameters the optimizer holds (0: none)
  fw,            \* per prediction variable, the forward pass that produced it
  ns,            \* the tensor variables of the notebook
  losses,        \* the loss tensors: the one back-propagated and the test one
  stages,        \* the training stages run so far in the current iteration
  steps,         \* calls of optimizer.step(): of this optimizer, of this epoch
  rng,           \* the default torch generator
  drawlog,       \* the generator state the latest sampling was taken from
  npGlobal,      \* the global numpy generator
  loaders,       \* sizes of the data sets and whether the loaders exist
  file,          \* content of models/linear_regressor.pth
  printed,       \* the tensors printed so far
  produced,      \* the data sets and splits produced so far in this run
  prevProduced   \* the same of the previous run

vars == << nb, run, pc, loop, inference, objs, bind, optimizer, fw, ns, losses,
           stages, steps, rng, drawlog, npGlobal, loaders, file, printed, produced, prevProduced >>

ModelVars == {"sample_model", "trained_model", "model"}

TensorVars ==
  {"predictor", "target", "train_predictor", "train_target", "test_predictor", "test_target",
   "new_predictor", "result", "prediction", "test_prediction", "new_prediction",
   "points", "classification", "train_input", "train_output", "test_input", "test_output",
   "probabilities", "train_logits", "train_classification", "test_logits", "test_classification"}

ForwardTargets ==
  {"result", "prediction", "test_prediction", "new_prediction",
   "train_logits", "test_logits", "train_classification", "test_classification"}

NoForward == [m |-> "", d |-> "", training |-> FALSE, inference |-> FALSE, ran |-> FALSE,
              cls |-> "", out |-> << >>, shape |-> << >>]

NoLoss == [m |-> 0, graph |-> FALSE, g |-> 0, training |-> FALSE]

\* A kernel that has just started on one of the notebooks.
Init ==
  \E n \in Notebooks, ts \in EntropySeeds, nps \in EntropySeeds :
    /\ nb = n
    /\ run = 1
    /\ pc = 1
    /\ loop = [count |-> 0, it |-> 0, epoch |-> 0, batches |-> 0, batchIt |-> 0, batch |-> 0, batchLen |-> 0,
                 workers |-> 0, loadedBy |-> 0]
    /\ inference = FALSE
    /\ objs = << >>
    /\ bind = [v \in ModelVars |-> 0]
    /\ optimizer = 0
    /\ fw = [t \in ForwardTargets |-> NoForward]
    /\ ns = [v \in TensorVars |-> << >>]
    /\ losses = [train |-> NoLoss, test |-> NoLoss]
    /\ stages = << >>
    /\ steps = [total |-> 0, epoch |-> 0]
    /\ rng = Seeded(ts)
    /\ drawlog = [sampled |-> FALSE, from |-> Seeded(ts), stale |-> FALSE, drew |-> FALSE]
    /\ npGlobal = Seeded(nps)
    /\ loaders = [train |-> 0, test |-> 0, made |-> FALSE, num_workers |-> [d \in {"train", "test"} |-> 0]]
    /\ file = << >>
    /\ printed = << >>
    /\ produced = << >>
    /\ prevProduced = << >>

\* ------------------------------------------------------------ control flow
Prog == Program(nb)

Done == pc > Len(Prog)

Cur == IF Done THEN St("done") ELSE Prog[pc]

At(op) == Cur.op = op

\* The first statement op after position i / the last one before it.
NextOp(i, op) == CHOOSE j \in (i + 1)..Len(Prog) :
                   /\ Prog[j].op = op
                   /\ \A k \in (i + 1)..(j - 1) : Prog[k].op # op

PrevOp(i, op) == CHOOSE j \in 1..(i - 1) :
                   /\ Prog[j].op = op
                   /\ \A k \in (j + 1)..(i - 1) : Prog[k].op # op

\* The module a model variable is bound to.
Obj(m) == objs[bind[m]]

\* Object ids in use, and the modules that remain after garbage collection.
Referenced(b, o) == ({b[v] : v \in ModelVars} \cup {o}) \ {0}

Collect(os, b, o) == [i \in Referenced(b, o) \cap DOMAIN os |-> os[i]]

FreshId == CHOOSE i \in 1..(Cardinality(DOMAIN objs) + 1) :
             /\ i \notin DOMAIN objs
             /\ \A j \in 1..(i - 1) : j \in DOMAIN objs

\* Sampling n values from the default torch generator.
Sample(n) ==
  /\ rng' = Advance(rng, n)
  /\ drawlog' = [sampled |-> TRUE, from |-> rng, stale |-> drawlog.sampled, drew |-> TRUE]

\* predictor = torch.arange(0, 1, 0.02), in units of 0.02
MakePredictor ==
  /\ At("make_predictor")
  /\ ns' = [ns EXCEPT !["predictor"] = [i \in 1..PredictorSize |-> i - 1]]
  /\ pc' = pc + 1
  /\ UNCHANGED << nb, run, loop, inference, objs, bind, optimizer, fw, losses,
                  stages, steps, rng, drawlog, npGlobal, loaders, file, printed, produced, prevProduced >>

\* target = true_weight * predictor + true_bias
MakeTarget ==
  /\ At("make_target")
  /\ ns' = [ns EXCEPT !["target"] = [i \in DOMAIN ns["predictor"] |-> true_weight * ns["predictor"][i] + true_bias]]
  /\ pc' = pc + 1
  /\ UNCHANGED << nb, run, loop, inference, objs, bind, optimizer, fw, losses,
                  stages, steps, rng, drawlog, npGlobal, loaders, file, printed, produced, prevProduced >>

\* train_cutoff = int(0.8 * predictor.size(dim=0)) and the four slices
SliceSplit ==
  /\ At("slice_split")
  /\ LET n == Len(ns["predictor"])
         train_cutoff == TrainCutoff(n)
     IN ns' = [ns EXCEPT !["train_predictor"] = Slice(ns["predictor"], 0, train_cutoff),
                         !["train_target"] = Slice(ns["target"], 0, train_cutoff),
                         !["test_predictor"] = Slice(ns["predictor"], train_cutoff, n),
                         !["test_target"] = Slice(ns["target"], train_cutoff, n)]
  /\ pc' = pc + 1
  /\ UNCHANGED << nb, run, loop, inference, objs, bind, optimizer, fw, losses,
                  stages, steps, rng, drawlog, npGlobal, loaders, file, printed, produced, prevProduced >>

\* new_predictor = torch.arange(1.02, 1.20, 0.02), in units of 0.02
MakeNewPredictor ==
  /\ At("make_new_predictor")
  /\ ns' = [ns EXCEPT !["new_predictor"] = [i \in 1..9 |-> 50 + i]]
  /\ pc' = pc + 1
  /\ UNCHANGED << nb, run, loop, inference, objs, bind, optimizer, fw, losses,
                  stages, steps, rng, drawlog, npGlobal, loaders, file, printed, produced, prevProduced >>

\* m = Class(): a new module with randomly initialised parameters
Construct ==
  /\ At("construct")
  /\ LET id == FreshId
         b == [bind EXCEPT ![Cur.m] = id]
     IN /\ bind' = b
        /\ objs' = Collect((id :> NewModule(Cur.d, rng)) @@ objs, b, optimizer)
  /\ Sample(InitDraws(Cur.d))
  /\ pc' = pc + 1
  /\ UNCHANGED << nb, run, loop, inference, optimizer, fw, ns, losses,
                  stages, steps, npGlobal, loaders, file, printed, produced, prevProduced >>

\* m.train()
Train ==
  /\ At("train")
  /\ objs' = [objs EXCEPT ![bind[Cur.m]].training = TRUE]
  /\ pc' = pc + 1
  /\ UNCHANGED << nb, run, loop, inference, bind, optimizer, fw, ns, losses,
                  stages, steps, rng, drawlog, npGlobal, loaders, file, printed, produced, prevProduced >>

\* m.eval()
Eval ==
  /\ At("eval")
  /\ objs' = [objs EXCEPT ![bind[Cur.m]].training = FALSE]
  /\ pc' = pc + 1
  /\ UNCHANGED << nb, run, loop, inference, bind, optimizer, fw, ns, losses,
                  stages, steps, rng, drawlog, npGlobal, loaders, file, printed, produced, prevProduced >>

\* with torch.inference_mode():
EnterInferenceMode ==
  /\ At("enter_inference")
  /\ inference' = TRUE
  /\ pc' = pc + 1
  /\ UNCHANGED << nb, run, loop, objs, bind, optimizer, fw, ns, losses,
                  stages, steps, rng, drawlog, npGlobal, loaders, file, printed, produced, prevProduced >>

\* the end of the with block
ExitInferenceMode ==
  /\ At("exit_inference")
  /\ inference' = FALSE
  /\ pc' = pc + 1
  /\ UNCHANGED << nb, run, loop, objs, bind, optimizer, fw, ns, losses,
                  stages, steps, rng, drawlog, npGlobal, loaders, file, printed, produced, prevProduced >>

\* The shape of the tensor d a forward pass is given: the samples of a batch
\* (N x 1 x 28 x 28), the points (N x 2) or the predictor values (N).
InputShape(d) ==
  CASE nb = "vision" -> << loop.batchLen, 1, 28, 28 >>
    [] nb = "classification" -> << Len(ns[d]), Len(ns[d][1]) >>
    [] OTHER -> << Len(ns[d]) >>

\* t = m(d), or t = m(d).squeeze(): the forward pass, in the mode the module
\* and the context are in
Forward ==
  /\ At("forward")
  /\ LET out == ForwardShape(Layers(Obj(Cur.m).cls), InputShape(Cur.d))
     IN fw' = [fw EXCEPT ![Cur.t] = [m |-> Cur.m, d |-> Cur.d, training |-> Obj(Cur.m).training,
                                     inference |-> inference, ran |-> TRUE,
                                     cls |-> Obj(Cur.m).cls, out |-> out,
                                     shape |-> IF Cur.n = 1 THEN Squeeze(out) ELSE out]]
  /\ IF Obj(Cur.m).cls = "LinearRegressionModel"
     THEN ns' = [ns EXCEPT ![Cur.t] = LinearForward(Obj(Cur.m), ns[Cur.d])]
     ELSE \E l \in Logits : ns' = [ns EXCEPT ![Cur.t] = << l >>]
  /\ stages' = IF IsTrainData(Cur.d) THEN Append(stages, "forward") ELSE stages
  /\ pc' = pc + 1
  /\ UNCHANGED << nb, run, loop, inference, objs, bind, optimizer, losses,
                  steps, rng, drawlog, npGlobal, loaders, file, printed, produced, prevProduced >>

\* loss = loss_function(d, target): it carries the graph of the forward pass
\* unless that ran in inference mode
Loss ==
  /\ At("loss")
  /\ \E g \in GradValues :
       /\ fw[Cur.d].inference => g = 0
       /\ losses' = [losses EXCEPT ![Cur.t] = [m |-> bind[fw[Cur.d].m], graph |-> ~fw[Cur.d].inference,
                                              g |-> g, training |-> fw[Cur.d].training]]
  /\ stages' = IF Cur.t = "train" THEN Append(stages, "loss") ELSE stages
  /\ pc' = pc + 1
  /\ UNCHANGED << nb, run, loop, inference, objs, bind, optimizer, fw, ns,
                  steps, rng, drawlog, npGlobal, loaders, file, printed, produced, prevProduced >>

\* optimizer.zero_grad()
ZeroGrad ==
  /\ At("zero_grad")
  /\ objs' = [objs EXCEPT ![optimizer] = ZeroGradOf(objs[optimizer])]
  /\ stages' = Append(stages, "zero_grad")
  /\ pc' = pc + 1
  /\ UNCHANGED << nb, run, loop, inference, bind, optimizer, fw, ns, losses,
                  steps, rng, drawlog, npGlobal, loaders, file, printed, produced, prevProduced >>

\* loss.backward()
Backward ==
  /\ At("backward")
  /\ losses.train.graph
  /\ objs' = [objs EXCEPT ![losses.train.m] = BackwardOn(objs[losses.train.m], losses.train.g)]
  /\ stages' = Append(stages, "backward")
  /\ pc' = pc + 1
  /\ UNCHANGED << nb, run, loop, inference, bind, optimizer, fw, ns, losses,
                  steps, rng, drawlog, npGlobal, loaders, file, printed, produced, prevProduced >>

\* optimizer.step()
OptimizerStep ==
  /\ At("step")
  /\ objs' = [objs EXCEPT ![optimizer] = StepOn(objs[optimizer])]
  /\ stages' = Append(stages, "step")
  /\ steps' = [total |-> steps.total + 1, epoch |-> steps.epoch + 1]
  /\ pc' = pc + 1
  /\ UNCHANGED << nb, run, loop, inference, bind, optimizer, fw, ns,
                  losses, rng, drawlog, npGlobal, loaders, file, printed, produced, prevProduced >>

\* optimizer = torch.optim.SGD(params=m.parameters(), lr=...)
MakeOptimizer ==
  /\ At("make_optimizer")
  /\ optimizer' = bind[Cur.m]
  /\ objs' = Collect(objs, bind, bind[Cur.m])
  /\ steps' = [total |-> 0, epoch |-> 0]
  /\ pc' = pc + 1
  /\ UNCHANGED << nb, run, loop, inference, bind, fw, ns, losses,
                  stages, rng, drawlog, npGlobal, loaders, file, printed, produced, prevProduced >>

\* torch.manual_seed(n)
ManualSeed ==
  /\ At("manual_seed")
  /\ rng' = Seeded(Cur.n)
  /\ drawlog' = [drawlog EXCEPT !.sampled = FALSE]
  /\ pc' = pc + 1
  /\ UNCHANGED << nb, run, loop, inference, objs, bind, optimizer, fw, ns,
                  losses, stages, steps, npGlobal, loaders, file, printed, produced, prevProduced >>

\* epoch_count = n and the range(epoch_count) the for statement iterates
RangeEpochs ==
  /\ At("range_epochs")
  /\ loop' = [loop EXCEPT !.count = EpochLimit(Cur.n), !.it = 0]
  /\ pc' = pc + 1
  /\ UNCHANGED << nb, run, inference, objs, bind, optimizer, fw, ns, losses,
                  stages, steps, rng, drawlog, npGlobal, loaders, file, printed, produced, prevProduced >>

\* for epoch in range(epoch_count): the next epoch, or the end of the loop
ForEpoch ==
  /\ At("for_epoch")
  /\ IF loop.it < loop.count
     THEN /\ loop' = [loop EXCEPT !.epoch = loop.it, !.it = loop.it + 1]
          /\ stages' = << >>
          /\ steps' = [steps EXCEPT !.epoch = 0]
          /\ pc' = pc + 1
     ELSE /\ pc' = NextOp(pc, "end_epoch") + 1
          /\ UNCHANGED << loop, stages, steps >>
  /\ UNCHANGED << nb, run, inference, objs, bind, optimizer, fw, ns,
                  losses, rng, drawlog, npGlobal, loaders, file, printed, produced, prevProduced >>

\* the end of the body of the epoch loop
EndEpoch ==
  /\ At("end_epoch")
  /\ pc' = PrevOp(pc, "for_epoch")
  /\ UNCHANGED << nb, run, loop, inference, objs, bind, optimizer, fw, ns, losses,
                  stages, steps, rng, drawlog, npGlobal, loaders, file, printed, produced, prevProduced >>

\* iter(dataloader): the iterator draws its base seed from the default generator,
\* and the sampler of a shuffling loader draws a seed of its own
IterBatches ==
  /\ At("iter_batches")
  /\ loop' = [loop EXCEPT !.batches = DataLoaderLen(loaders[Cur.d], BATCH_SIZE), !.batchIt = 0,
                           !.workers = loaders.num_workers[Cur.d]]
  /\ Sample(IF Cur.d = "train" THEN 2 ELSE 1)
  /\ pc' = pc + 1
  /\ UNCHANGED << nb, run, inference, objs, bind, optimizer, fw, ns,
                  losses, stages, steps, npGlobal, loaders, file, printed, produced, prevProduced >>

\* for ... in dataloader: the next batch, or the end of the loop
ForBatch ==
  /\ At("for_batch")
  /\ IF loop.batchIt < loop.batches
     THEN /\ loop' = [loop EXCEPT !.batch = loop.batchIt, !.batchIt = loop.batchIt + 1,
                                  !.batchLen = Min(BATCH_SIZE, loaders[Cur.d] - BATCH_SIZE * loop.batchIt),
                                  !.loadedBy = IF loop.workers = 0 THEN 0
                                               ELSE 1 + (loop.batchIt % loop.workers)]
          /\ stages' = IF Cur.d = "train" THEN << >> ELSE stages
          /\ pc' = pc + 1
     ELSE /\ pc' = NextOp(pc, "end_batch") + 1
          /\ loop' = [loop EXCEPT !.workers = 0]
          /\ UNCHANGED stages
  /\ UNCHANGED << nb, run, inference, objs, bind, optimizer, fw, ns, losses,
                  steps, rng, drawlog, npGlobal, loaders, file, printed, produced, prevProduced >>

\* the end of the body of a batch loop
EndBatch ==
  /\ At("end_batch")
  /\ pc' = PrevOp(pc, "for_batch")
  /\ UNCHANGED << nb, run, loop, inference, objs, bind, optimizer, fw, ns, losses,
                  stages, steps, rng, drawlog, npGlobal, loaders, file, printed, produced, prevProduced >>

\* torch.save(obj=m.state_dict(), f=model_path / "linear_regressor.pth")
Save ==
  /\ At("save")
  /\ file' = StateDict(Obj(Cur.m))
  /\ pc' = pc + 1
  /\ UNCHANGED << nb, run, loop, inference, objs, bind, optimizer, fw, ns,
                  losses, stages, steps, rng, drawlog, npGlobal, loaders, printed, produced, prevProduced >>

\* m.load_state_dict(torch.load(f=model_path / "linear_regressor.pth"))
Load ==
  /\ At("load_state_dict")
  /\ objs' = [objs EXCEPT ![bind[Cur.m]] = LoadStateDict(Obj(Cur.m), file)]
  /\ pc' = pc + 1
  /\ UNCHANGED << nb, run, loop, inference, bind, optimizer, fw, ns, losses,
                  stages, steps, rng, drawlog, npGlobal, loaders, file, printed, produced, prevProduced >>

\* print(d)
PrintTensor ==
  /\ At("print")
  /\ printed' = Append(printed, ns[Cur.d])
  /\ pc' = pc + 1
  /\ UNCHANGED << nb, run, loop, inference, objs, bind, optimizer, fw, ns,
                  losses, stages, steps, rng, drawlog, npGlobal, loaders, file, produced, prevProduced >>

\* points, classification = make_circles(sample_size, noise=0.03, random_state=42):
\* the outer and the inner circle, shuffled together, then noise on the points
MakeCircles ==
  /\ At("make_circles")
  /\ LET g == CheckRandomState(Cur.n, npGlobal)
         n == CircleSamples
         n_out == n \div 2
         order == Permutation(g, n)
         noise == Draws(Advance(g, n - 1), n)
         X == [i \in 1..n |-> << order[i], noise[i] % NoiseLevels >>]
         y == [i \in 1..n |-> IF order[i] < n_out THEN 0 ELSE 1]
     IN /\ ns' = [ns EXCEPT !["points"] = X, !["classification"] = y]
        /\ produced' = Append(produced, << X, y >>)
  /\ pc' = pc + 1
  /\ UNCHANGED << nb, run, loop, inference, objs, bind, optimizer, fw, losses,
                  stages, steps, rng, drawlog, npGlobal, loaders, file, printed, prevProduced >>

\* points = torch.from_numpy(points).type(torch.float), and the labels likewise
FromNumpy ==
  /\ At("from_numpy")
  /\ LET X == [i \in DOMAIN ns["points"] |-> << ns["points"][i][1], ToFloat32(ns["points"][i][2]) >>]
         y == ns["classification"]
     IN /\ ns' = [ns EXCEPT !["points"] = X, !["classification"] = y]
        /\ produced' = Append(produced, << X, y >>)
  /\ pc' = pc + 1
  /\ UNCHANGED << nb, run, loop, inference, objs, bind, optimizer, fw, losses,
                  stages, steps, rng, drawlog, npGlobal, loaders, file, printed, prevProduced >>

\* train_test_split(points, classification, test_size=0.2, random_state=42)
TrainTestSplit ==
  /\ At("train_test_split")
  /\ LET n == Len(ns["points"])
         n_train == ShuffleSplitSizes(n)[1]
         n_test == ShuffleSplitSizes(n)[2]
         permutation == Permutation(CheckRandomState(Cur.n, npGlobal), n)
         ind_test == Slice(permutation, 0, n_test)
         ind_train == Slice(permutation, n_test, n_test + n_train)
         Take(a, ind) == [i \in DOMAIN ind |-> a[ind[i] + 1]]
         parts == << Take(ns["points"], ind_train), Take(ns["points"], ind_test),
                     Take(ns["classification"], ind_train), Take(ns["classification"], ind_test) >>
     IN /\ ns' = [ns EXCEPT !["train_input"] = parts[1], !["test_input"] = parts[2],
                            !["train_output"] = parts[3], !["test_output"] = parts[4]]
        /\ produced' = Append(produced, parts)
  /\ pc' = pc + 1
  /\ UNCHANGED << nb, run, loop, inference, objs, bind, optimizer, fw, losses,
                  stages, steps, rng, drawlog, npGlobal, loaders, file, printed, prevProduced >>

\* probabilities = torch.sigmoid(prediction)
SigmoidCell ==
  /\ At("sigmoid")
  /\ ns' = [ns EXCEPT !["probabilities"] = [i \in DOMAIN ns[Cur.d] |-> Sigmoid(ns[Cur.d][i])]]
  /\ pc' = pc + 1
  /\ UNCHANGED << nb, run, loop, inference, objs, bind, optimizer, fw, losses,
                  stages, steps, rng, drawlog, npGlobal, loaders, file, printed, produced, prevProduced >>

\* classification = torch.round(probabilities)
RoundCell ==
  /\ At("round")
  /\ ns' = [ns EXCEPT !["classification"] = [i \in DOMAIN ns[Cur.d] |-> Round(ns[Cur.d][i])]]
  /\ pc' = pc + 1
  /\ UNCHANGED << nb, run, loop, inference, objs, bind, optimizer, fw, losses,
                  stages, steps, rng, drawlog, npGlobal, loaders, file, printed, produced, prevProduced >>

\* t = torch.round(torch.sigmoid(d))
Classify ==
  /\ At("classify")
  /\ ns' = [ns EXCEPT ![Cur.t] = ClassOf(ns[Cur.d])]
  /\ pc' = pc + 1
  /\ UNCHANGED << nb, run, loop, inference, objs, bind, optimizer, fw, losses,
                  stages, steps, rng, drawlog, npGlobal, loaders, file, printed, produced, prevProduced >>

\* train_data, test_data = datasets.FashionMNIST(...)
LoadDatasets ==
  /\ At("load_datasets")
  /\ loaders' = [loaders EXCEPT !.train = TrainDataSize, !.test = TestDataSize]
  /\ pc' = pc + 1
  /\ UNCHANGED << nb, run, loop, inference, objs, bind, optimizer, fw, ns,
                  losses, stages, steps, rng, drawlog, npGlobal, file, printed, produced, prevProduced >>

\* train_dataloader, test_dataloader = DataLoader(..., batch_size=BATCH_SIZE, ...)
MakeDataloaders ==
  /\ At("make_dataloaders")
  /\ loaders' = [loaders EXCEPT !.made = TRUE,
                                 !.num_workers = [d \in {"train", "test"} |-> LoaderOptions(d).num_workers]]
  /\ pc' = pc + 1
  /\ UNCHANGED << nb, run, loop, inference, objs, bind, optimizer, fw, ns,
                  losses, stages, steps, rng, drawlog, npGlobal, file, printed, produced, prevProduced >>

\* a sampling call: torch.rand, randint, bernoulli, normal or poisson of n values
SampleCell ==
  /\ At("sample")
  /\ Sample(Cur.n)
  /\ pc' = pc + 1
  /\ UNCHANGED << nb, run, loop, inference, objs, bind, optimizer, fw, ns,
                  losses, stages, steps, npGlobal, loaders, file, printed, produced, prevProduced >>

\* reset_seed(): torch.manual_seed(seed=1)
ResetSeed ==
  /\ At("reset_seed")
  /\ rng' = Seeded(1)
  /\ drawlog' = [drawlog EXCEPT !.sampled = FALSE]
  /\ pc' = pc + 1
  /\ UNCHANGED << nb, run, loop, inference, objs, bind, optimizer, fw, ns,
                  losses, stages, steps, npGlobal, loaders, file, printed, produced, prevProduced >>

\* print(torch.rand(3, 3))
RandPrint ==
  /\ At("rand_print")
  /\ printed' = Append(printed, Draws(rng, Cur.n))
  /\ Sample(Cur.n)
  /\ pc' = pc + 1
  /\ UNCHANGED << nb, run, loop, inference, objs, bind, optimizer, fw,
                  ns, losses, stages, steps, npGlobal, loaders, file, produced, prevProduced >>

\* Restart the kernel and run the notebook again from the top.
Restart ==
  /\ Done
  /\ run < MaxRuns
  /\ \E ts \in EntropySeeds, nps \in EntropySeeds :
       /\ nb' = nb
       /\ run' = run + 1
       /\ pc' = 1
       /\ loop' = [count |-> 0, it |-> 0, epoch |-> 0, batches |-> 0, batchIt |-> 0, batch |-> 0, batchLen |-> 0,
                 workers |-> 0, loadedBy |-> 0]
       /\ inference' = FALSE
       /\ objs' = << >>
       /\ bind' = [v \in ModelVars |-> 0]
       /\ optimizer' = 0
       /\ fw' = [t \in ForwardTargets |-> NoForward]
       /\ ns' = [v \in TensorVars |-> << >>]
       /\ losses' = [train |-> NoLoss, test |-> NoLoss]
       /\ stages' = << >>
       /\ steps' = [total |-> 0, epoch |-> 0]
       /\ rng' = Seeded(ts)
       /\ drawlog' = [sampled |-> FALSE, from |-> Seeded(ts), stale |-> FALSE, drew |-> FALSE]
       /\ npGlobal' = Seeded(nps)
       /\ loaders' = [train |-> 0, test |-> 0, made |-> FALSE, num_workers |-> [d \in {"train", "test"} |-> 0]]
       /\ file' = << >>
       /\ printed' = << >>
       /\ produced' = << >>
       /\ prevProduced' = produced

Next ==
  \/ MakePredictor
  \/ MakeTarget
  \/ SliceSplit
  \/ MakeNewPredictor
  \/ Construct
  \/ Train
  \/ Eval
  \/ EnterInferenceMode
  \/ ExitInferenceMode
  \/ Forward
  \/ Loss
  \/ ZeroGrad
  \/ Backward
  \/ OptimizerStep
  \/ MakeOptimizer
  \/ ManualSeed
  \/ RangeEpochs
  \/ ForEpoch
  \/ EndEpoch
  \/ IterBatches
  \/ ForBatch
  \/ EndBatch
  \/ Save
  \/ Load
  \/ PrintTensor
  \/ MakeCircles
  \/ FromNumpy
  \/ TrainTestSplit
  \/ SigmoidCell
  \/ RoundCell
  \/ Classify
  \/ LoadDatasets
  \/ MakeDataloaders
  \/ SampleCell
  \/ ResetSeed
  \/ RandPrint
  \/ Restart

Spec == Init /\ [][Next]_vars

\* ------------------------------------------------------------- properties
\* The statement executed last, when execution fell through to pc.
Prev == IF pc > 1 THEN Prog[pc - 1] ELSE St("start")

\* The stages of the current iteration that the notebooks document.
Documented == << "forward", "loss", "backward", "step" >>

RanDocumented == SelectSeq(stages, LAMBDA s : s # "zero_grad")

\* The end of one iteration of a training loop: of an epoch in the workflow
\* and classification notebooks, of a training batch in the vision notebook.
IterationEnd ==
  \/ nb \in {"workflow", "classification"} /\ At("end_epoch")
  \/ nb = "vision" /\ At("end_batch") /\ Prog[PrevOp(pc, "for_batch")].d = "train"

\* C1: in every training loop zero_grad runs before backward, and when
\* optimizer.step() runs the accumulated gradient of each parameter is the
\* gradient of the loss of the current iteration only.
C1_GradientOfCurrentLoss ==
  /\ At("backward") => \E i \in DOMAIN stages : stages[i] = "zero_grad"
  /\ At("step") =>
       /\ losses.train.m = optimizer
       /\ \A k \in DOMAIN objs[optimizer].grad : objs[optimizer].grad[k] = losses.train.g

\* A later iteration is about to update with a gradient that is not zero.
C1_Witness ==
  /\ nb = "vision"
  /\ At("step")
  /\ steps.total >= 2
  /\ losses.train.g # 0

\* C2: each iteration runs forward, loss, backward and step in this order and
\* once each; at no time have the stages run so far left that order.
C2_StagesInOrder ==
  /\ IsPrefix(RanDocumented, Documented)
  /\ IterationEnd => RanDocumented = Documented

C2_Witness ==
  /\ nb = "workflow"
  /\ At("end_epoch")
  /\ loop.epoch >= 1

\* C3: the forward pass whose loss is back-propagated ran in training state,
\* and every forward pass over test data inside a loop ran in evaluation state.
C3_ModesInLoops ==
  /\ At("backward") => losses.train.training
  /\ \A t \in LoopTestTargets :
       (fw[t].ran /\ IsTestData(fw[t].d)) => ~fw[t].training

\* Back-propagation in an epoch that follows an evaluation phase.
C3_Witness ==
  /\ nb = "workflow"
  /\ At("backward")
  /\ loop.epoch >= 1
  /\ fw["test_prediction"].ran

\* C4: every forward pass made inside torch.inference_mode() found the model
\* in evaluation state.
C4_InferenceInEvalState ==
  \A t \in ForwardTargets : (fw[t].ran /\ fw[t].inference) => ~fw[t].training

\* The class the notebook documents for a probability in thousandths: 0 below
\* 0.5 and 1 from 0.5 on.
Threshold(p) == IF p < 500 THEN 0 ELSE 1

\* C5: the classification is 0 for a probability below 0.5 and 1 for a
\* probability of at least 0.5, in the standalone cell and in the loops.
C5_ThresholdClassification ==
  /\ Prev.op = "round" =>
       ns["classification"] = [i \in DOMAIN ns["probabilities"] |-> Threshold(ns["probabilities"][i])]
  /\ Prev.op = "classify" =>
       ns[Prev.t] = [i \in DOMAIN ns[Prev.d] |-> Threshold(Sigmoid(ns[Prev.d][i]))]

\* The label make_circles gives to the point with the given id.
LabelOf(point) == IF point[1] < CircleSamples \div 2 THEN 0 ELSE 1

\* C6: the split is an 80% / 20% partition: the first 40 and the last 10 pairs
\* of the workflow data, cut at the same index; 800 and 200 of the 1000 circle
\* points; in both the two sets are disjoint and together hold every sample.
C6_SplitIsPartition ==
  /\ TrainCutoff(PredictorSize) = 40
  /\ ShuffleSplitSizes(sample_size) = << 800, 200 >>
  /\ (nb = "workflow" /\ pc > 3) =>
       /\ ns["train_predictor"] = SubSeq(ns["predictor"], 1, 40)
       /\ ns["train_target"] = SubSeq(ns["target"], 1, 40)
       /\ ns["test_predictor"] = SubSeq(ns["predictor"], 41, 50)
       /\ ns["test_target"] = SubSeq(ns["target"], 41, 50)
       /\ Len(ns["test_predictor"]) = 10
       /\ Range(ns["train_predictor"]) \cap Range(ns["test_predictor"]) = {}
       /\ ns["train_predictor"] \o ns["test_predictor"] = ns["predictor"]
       /\ ns["train_target"] \o ns["test_target"] = ns["target"]
       /\ \A i \in DOMAIN ns["train_predictor"] :
            ns["train_target"][i] = true_weight * ns["train_predictor"][i] + true_bias
       /\ \A i \in DOMAIN ns["test_predictor"] :
            ns["test_target"][i] = true_weight * ns["test_predictor"][i] + true_bias
  /\ (nb = "classification" /\ pc > 3) =>
       /\ Len(ns["train_input"]) = ShuffleSplitSizes(Len(ns["points"]))[1]
       /\ Len(ns["test_input"]) = ShuffleSplitSizes(Len(ns["points"]))[2]
       /\ Len(ns["train_input"]) + Len(ns["test_input"]) = Len(ns["points"])
       /\ Cardinality(Range(ns["points"])) = Len(ns["points"])
       /\ Range(ns["train_input"]) \cap Range(ns["test_input"]) = {}
       /\ Range(ns["train_input"]) \cup Range(ns["test_input"]) = Range(ns["points"])
       /\ \A i \in DOMAIN ns["train_input"] : ns["train_output"][i] = LabelOf(ns["train_input"][i])
       /\ \A i \in DOMAIN ns["test_input"] : ns["test_output"][i] = LabelOf(ns["test_input"][i])

C6_Witness ==
  /\ nb = "workflow"
  /\ Prev.op = "slice_split"
  /\ Len(ns["train_predictor"]) = 40

\* The parameters of every live module.
Params == [i \in DOMAIN objs |-> objs[i].param]

\* C7: in the Fashion-MNIST loop optimizer.step() runs once per batch: 1875
\* times per epoch for 60000 samples, len(train_dataloader) times in every
\* epoch and epoch_count times that after the loop; the evaluation pass
\* updates no parameter.
C7_OneStepPerBatch ==
  /\ [](/\ CeilDiv(60000, BATCH_SIZE) = 1875
        /\ (nb = "vision" /\ At("end_epoch")) => steps.epoch = CeilDiv(TrainDataSize, BATCH_SIZE)
        /\ (nb = "vision" /\ Done) => steps.total = 3 * CeilDiv(TrainDataSize, BATCH_SIZE))
  /\ [][(nb = "vision" /\ inference) => (steps' = steps /\ Params' = Params)]_vars

C7_Witness ==
  /\ nb = "vision"
  /\ Done
  /\ steps.total > 3

\* The workflow notebook has loaded the saved state into trained_model.
AfterLoad ==
  /\ nb = "workflow"
  /\ pc > (CHOOSE j \in DOMAIN Prog : Prog[j].op = "load_state_dict")

\* C8: saving the state dictionary and loading it into a new instance is a
\* round trip: weight and bias of the new model equal those of the trained
\* one, and the repeated prediction equals the one made before saving.
C8_SaveLoadRoundTrip ==
  /\ AfterLoad => Obj("trained_model").param = Obj("sample_model").param
  /\ (nb = "workflow" /\ Done) =>
       /\ Len(printed) = 3
       /\ printed[3] = printed[2]

\* The run is over and the loaded values replaced different initial ones.
C8_Witness ==
  /\ nb = "workflow"
  /\ Done
  /\ steps.total >= 1
  /\ NewModule("LinearRegressionModel", Seeded(42)).param["_bias"] # Obj("trained_model").param["_bias"]

\* C9: every torch.rand(3, 3) that directly follows reset_seed() is drawn from
\* the freshly seeded generator and yields the same tensor; a draw that follows
\* another sampling is taken from a state other than the freshly seeded one.
C9_SeedRepeatsSampling ==
  /\ nb = "fundamentals" => \A i, j \in DOMAIN printed : printed[i] = printed[j]
  /\ Prev.op = "rand_print" => (drawlog.from = Seeded(1) /\ ~drawlog.stale)
  /\ (drawlog.drew /\ drawlog.stale) => drawlog.from # Seeded(drawlog.from.seed)

\* The three tensors are printed and a later draw came without a reset.
C9_Witness ==
  /\ nb = "fundamentals"
  /\ Len(printed) = 3
  /\ drawlog.stale
  /\ drawlog.from.seed = 1

\* C10: a second top-to-bottom execution of the classification notebook
\* produces the same points, labels and split as the first.
C10_CirclesReproducible ==
  (nb = "classification" /\ run >= 2) =>
     /\ IsPrefix(produced, prevProduced)
     /\ pc > 3 => produced = prevProduced

\* The second execution has split the data; its global numpy generator was
\* seeded differently from at least one first execution.
C10_Witness ==
  /\ nb = "classification"
  /\ run = 2
  /\ Len(produced) = 3
  /\ Done

\* The target vector the loss function compares a prediction variable with.
TargetOf(t) == IF t = "test_logits" THEN "test_output" ELSE "train_output"

\* The forward passes of the circle models.
CircleTargets == {"prediction", "train_logits", "test_logits"}

\* C11: both circle models are two linear layers whose sizes compose, 2 -> 5
\* and 5 -> 1, the second model with ReLU in between and nothing else changed;
\* for N points forward returns N x 1 logits, and after squeeze() the logits
\* have one entry per sample, as many as the target vector of the loss (800
\* for training and 200 for test out of 1000 points).
C11_CircleShapesCompose ==
  /\ Layers("CircleModelLinearLayers")[1].in_features = 2
  /\ Layers("CircleModelLinearLayers")[1].out_features = Layers("CircleModelLinearLayers")[2].in_features
  /\ Layers("CircleModelLinearLayers")[2].in_features = 5
  /\ Layers("CircleModelLinearLayers")[2].out_features = 1
  /\ SelectSeq(Layers("CircleModelNonLinear"), LAMBDA l : l.kind # "relu") = Layers("CircleModelLinearLayers")
  /\ Layers("CircleModelNonLinear")[2] = ReLU
  /\ Len(Layers("CircleModelNonLinear")) = 3
  /\ ShuffleSplitSizes(sample_size) = << 800, 200 >>
  /\ nb = "classification" =>
       \A t \in CircleTargets :
         fw[t].ran =>
           /\ fw[t].out = << Len(ns[fw[t].d]), 1 >>
           /\ fw[t].shape = << Len(ns[fw[t].d]) >>
           /\ fw[t].shape = << Len(ns[TargetOf(t)]) >>
           /\ Len(ns[TargetOf(t)]) = ShuffleSplitSizes(CircleSamples)[IF t = "test_logits" THEN 2 ELSE 1]

\* The non-linear model has made a squeezed forward pass over the test points
\* and its loss against test_output is next.
C11_Witness ==
  /\ nb = "classification"
  /\ At("loss")
  /\ Cur.d = "test_logits"
  /\ fw["test_logits"].cls = "CircleModelNonLinear"
  /\ fw["train_logits"].cls = "CircleModelNonLinear"
  /\ Len(fw["test_logits"].shape) = 1

====
